---- MODULE Spec2Model ----
(***************************************************************************)
(* Exact-rational polynomial reconstruction: the two command line programs *)
(* of the repository.                                                      *)
(*   "lagrange": src/Problem.js          (Lagrange at x = 0, --pick)       *)
(*   "gauss"   : src/unnamed/part_000    (Gaussian elimination on the      *)
(*                                        Vandermonde system,              *)
(*                                        --find-consistent)               *)
(* BigInt values are TLA+ integers (unbounded in the source).  A thrown    *)
(* Error is the record [error |-> message]; a value that is returned is a  *)
(* record without an "error" field.  Text written by toString() is a tuple *)
(* of its decimal tokens: <<n>> for "n" and <<n, d>> for "n/d".            *)
(***************************************************************************)
EXTENDS Integers, Sequences, FiniteSets, TLC

VARIABLES
  prog,      \* which program runs: "lagrange", "gauss", or "lib" (no program)
  k,         \* keys.k of the input
  n,         \* keys.n of the input
  points,    \* the points array: sequence of [x, y]
  entries,   \* the pts array of loadTestCase as pushed, before pts.sort
  pickArg,   \* the comma separated parts of --pick= (<<>>: no --pick)
  tryAll,    \* --find-consistent given (gauss)
  pc,        \* position of the run
  idx,       \* the generator's idx array (the combination it yields next)
  visited,   \* the combinations the generator has yielded so far, in order
  votes,     \* the tally Map, in insertion order
  attempts,  \* interpolation attempts started so far
  ret,       \* the winner the selection loop settled on (<<>>: none yet)
  out,       \* what the run printed: [kind, text, error]
  call,      \* library runs: the last Frac call and its arguments
  fa,        \* library runs: the Frac at hand (or a thrown error)
  lag,       \* library runs: result of constantViaLagrange
  gau        \* library runs: result of solveFracSystem

vars == <<prog, k, n, points, entries, pickArg, tryAll, pc, idx, visited, votes,
          attempts, ret, out, call, fa, lag, gau>>

(***************************************************************************)
(* Bounds of the model.                                                    *)
(***************************************************************************)
XKeys == {1, 2, 3, 5, 8}  \* x keys of a general input are drawn from XKeys
MaxY == 2          \* y values of a general input are drawn from 0..MaxY
MaxK == 3          \* thresholds of a general input are 1..MaxK
MaxRecorded == 20  \* visited and attempts record the first MaxRecorded subsets
MaxDelta == 100    \* six-point instance: the corrupted y is f(6) +- 1..MaxDelta
MaxPermX == 3      \* permuted inputs: x keys 1..MaxPermX
MaxPermY == 2      \* permuted inputs: y values 0..MaxPermY
MaxPickX == 2      \* --pick runs: the points have x keys in 1..MaxPickX
MaxPickY == 1      \* --pick runs: y values 0..MaxPickY
MaxPickLen == 3    \* --pick lists have up to MaxPickLen entries
MaxPickKey == 2    \* --pick keys are 1..MaxPickKey
MaxInterpK == 3    \* library runs: up to MaxInterpK points are interpolated
MaxInterpX == 3    \* library runs: x values 0..MaxInterpX
MaxInterpY == 2    \* library runs: y values 0..MaxInterpY
MaxFracNum == 3    \* library runs: arguments are -MaxFracNum..MaxFracNum
MaxFracMag == 9    \* library runs: a Frac beyond this magnitude is not used again
MaxDupX == 2       \* inputs with repeated x: x in 0..MaxDupX
MaxDupY == 1       \* inputs with repeated x: y in 0..MaxDupY
MaxDupLen == 4     \* inputs with repeated x: up to MaxDupLen points
MaxCombN == 6      \* generator runs: arrays of 0..MaxCombN elements
MaxSafeIdx == 8    \* an index stops growing here (2^53 for a Number of the build)
MaxTermX == 3      \* search runs on any number of points: x in 1..MaxTermX
MaxTermY == 1      \* search runs on any number of points: y in 0..MaxTermY
MaxTermK == 3      \* search runs on any number of points: k in 1..MaxTermK

(***************************************************************************)
(* Errors and text.                                                        *)
(***************************************************************************)
Throw(msg) == [error |-> msg]
IsThrow(r) == "error" \in DOMAIN r

ErrDivZero == "Division by zero"
ErrNonInteger == "Non-integer constant term"
ErrSingular == "Singular matrix (no unique solution)"
ErrNoConsistent == "No consistent (integer) subsets found"
ErrNoSolvable == "No solvable subsets found"
ErrPickSize == "--pick must specify exactly k x-keys"
ErrPickMissing == "--pick refers to missing x"
ErrPickNonInteger == "--pick contains non-integer"
ErrNeedPoints == "Need at least k points"
\* arithmetic on undefined and a BigInt (xs[ii], ys[ii] past the end of the array)
ErrType == "TypeError"

\* BigInt.prototype.toString: the decimal text of an integer
BIToString(a) == <<a>>

(***************************************************************************)
(* BigInt helpers.                                                         *)
(***************************************************************************)
absBI(a) == IF a < 0 THEN -a ELSE a

\* BigInt "/" truncates toward zero
quotBI(a, b) ==
  IF (a < 0) = (b < 0) THEN absBI(a) \div absBI(b)
  ELSE -(absBI(a) \div absBI(b))

\* BigInt "%": the remainder takes the sign of the dividend
remBI(a, b) == a - b * quotBI(a, b)

RECURSIVE gcdLoop(_, _)
gcdLoop(a, b) == IF b = 0 THEN a ELSE gcdLoop(b, remBI(a, b))

gcdBI(a, b) == gcdLoop(absBI(a), absBI(b))

(***************************************************************************)
(* Fraction over BigInt.                                                   *)
(***************************************************************************)
\* a constructor that only fixes the sign
FracNoReduce(n0, d0) ==
  IF d0 = 0 THEN Throw(ErrDivZero)
  ELSE LET n1 == IF d0 < 0 THEN -n0 ELSE n0
           d1 == IF d0 < 0 THEN -d0 ELSE d0
       IN  [n |-> n1, d |-> d1]

\* new Frac(n, d)
Frac(n0, d0) ==
  IF d0 = 0 THEN Throw(ErrDivZero)
  ELSE LET n1 == IF d0 < 0 THEN -n0 ELSE n0
           d1 == IF d0 < 0 THEN -d0 ELSE d0
           g == gcdBI(absBI(n1), d1)
       IN  [n |-> quotBI(n1, g), d |-> quotBI(d1, g)]

fromBI(x) == Frac(x, 1)

add(a, o) == Frac(a.n * o.d + o.n * a.d, a.d * o.d)
sub(a, o) == Frac(a.n * o.d - o.n * a.d, a.d * o.d)
mul(a, o) == Frac(a.n * o.n, a.d * o.d)

div(a, o) ==
  IF o.n = 0 THEN Throw(ErrDivZero) ELSE Frac(a.n * o.d, a.d * o.n)

isInt(a) == a.d = 1

\* Frac.prototype.toString: "n" when integral, "n/d" otherwise
FracToString(a) == IF isInt(a) THEN BIToString(a.n) ELSE <<a.n, a.d>>

(***************************************************************************)
(* Points.  Array indices are 0-based as in the source: element i of a     *)
(* JavaScript array is element i + 1 of the TLA+ sequence.                 *)
(***************************************************************************)
At(arr, i) == arr[i + 1]

\* combo.map((i) => points[i])
subsetOf(pts, combo) == [j \in 1..Len(combo) |-> At(pts, combo[j])]

\* points.slice(0, k)
sliceK(pts, kk) == [j \in 1..(IF kk < Len(pts) THEN kk ELSE Len(pts)) |-> pts[j]]

(***************************************************************************)
(* Lagrange at x = 0.                                                      *)
(***************************************************************************)
\* a basis loop that takes the differences against the running index
RECURSIVE basisLoopSigned(_, _, _, _, _)
basisLoopSigned(pts, i, j, num, den) ==
  IF j >= Len(pts) THEN [num |-> num, den |-> den]
  ELSE IF j = i THEN basisLoopSigned(pts, i, j + 1, num, den)
  ELSE basisLoopSigned(pts, i, j + 1, num * (-At(pts, j).x),
         den * (IF j < i THEN At(pts, j).x - At(pts, i).x
                ELSE At(pts, i).x - At(pts, j).x))

\* inner loop over j: num *= -xs[j]; den *= xi - xs[j]   (j = i skipped)
RECURSIVE basisLoop(_, _, _, _, _)
basisLoop(pts, i, j, num, den) ==
  IF j >= Len(pts) THEN [num |-> num, den |-> den]
  ELSE IF j = i THEN basisLoop(pts, i, j + 1, num, den)
  ELSE basisLoop(pts, i, j + 1, num * (-At(pts, j).x),
                 den * (At(pts, i).x - At(pts, j).x))

\* outer loop over i: acc = acc.add(li0.mul(Frac.fromBI(ys[i])))
RECURSIVE lagrangeLoop(_, _, _)
lagrangeLoop(pts, i, acc) ==
  IF i >= Len(pts) THEN acc
  ELSE LET nd == basisLoop(pts, i, 0, 1, 1)
           li0 == Frac(nd.num, nd.den)
       IN  IF IsThrow(li0) THEN li0
           ELSE lagrangeLoop(pts, i + 1, add(acc, mul(li0, fromBI(At(pts, i).y))))

\* the accumulated rational before the integrality test
lagrangeAcc(pts) == lagrangeLoop(pts, 0, fromBI(0))

constantViaLagrange(pts) ==
  LET acc == lagrangeAcc(pts)
  IN  IF IsThrow(acc) THEN acc
      ELSE IF ~isInt(acc) THEN Throw(ErrNonInteger)
      ELSE [value |-> acc.n]

(***************************************************************************)
(* Gaussian elimination over Frac on the Vandermonde system.               *)
(***************************************************************************)
RECURSIVE powLoop(_, _, _)
powLoop(r, b, e) ==
  IF e > 0 THEN powLoop(IF e % 2 = 1 THEN r * b ELSE r, b * b, e \div 2)
  ELSE r

powBI(base, exp) == powLoop(1, base, exp)

\* [x^m, x^(m-1), ..., x^1, 1]
vandermondeRow(xBI, m) ==
  [c \in 1..(m + 1) |-> IF c <= m THEN fromBI(powBI(xBI, m - c + 1)) ELSE fromBI(1)]

\* pivot search: the first row r >= col with M[r][col].n !== 0n, else col
RECURSIVE findPivot(_, _, _)
findPivot(M, col, r) ==
  IF r > Len(M) THEN col
  ELSE IF M[r][col].n # 0 THEN r
  ELSE findPivot(M, col, r + 1)

\* swap rows col and piv
swapRows(M, col, piv) ==
  [r \in 1..Len(M) |-> IF r = col THEN M[piv] ELSE IF r = piv THEN M[col] ELSE M[r]]

\* M[col][c] = M[col][c].div(pivotVal) for c = col..k
normalizeRow(row, col, pivotVal) ==
  [c \in 1..Len(row) |-> IF c >= col THEN div(row[c], pivotVal) ELSE row[c]]

\* an elimination that subtracts the pivot row without scaling it
eliminateRowNoFactor(row, prow, col) ==
  LET factor == row[col]
  IN  IF factor.n = 0 THEN row
      ELSE [c \in 1..Len(row) |->
              IF c >= col THEN sub(row[c], prow[c]) ELSE row[c]]

\* M[r][c] = M[r][c].sub(factor.mul(M[col][c])) for c = col..k
eliminateRow(row, prow, col) ==
  LET factor == row[col]
  IN  IF factor.n = 0 THEN row
      ELSE [c \in 1..Len(row) |->
              IF c >= col THEN sub(row[c], mul(factor, prow[c])) ELSE row[c]]

RECURSIVE forwardElim(_, _)
forwardElim(M, col) ==
  IF col > Len(M) THEN [M |-> M]
  ELSE LET piv == findPivot(M, col, col)
       IN  IF M[piv][col].n = 0 THEN Throw(ErrSingular)
           ELSE LET M1 == swapRows(M, col, piv)
                    prow == normalizeRow(M1[col], col, M1[col][col])
                    M2 == [r \in 1..Len(M) |->
                             IF r = col THEN prow
                             ELSE IF r > col THEN eliminateRow(M1[r], prow, col)
                             ELSE M1[r]]
                IN  forwardElim(M2, col + 1)

\* sum = sum.add(M[r][c].mul(x[c])) for c = r+1..k-1 (0-based)
RECURSIVE backSum(_, _, _, _, _)
backSum(M, r, c, x, sum) ==
  IF c > Len(M) THEN sum
  ELSE backSum(M, r, c + 1, x, add(sum, mul(M[r][c], x[c])))

RECURSIVE backSub(_, _, _)
backSub(M, r, x) ==
  IF r < 1 THEN x
  ELSE backSub(M, r - 1,
               [x EXCEPT ![r] = sub(M[r][Len(M) + 1], backSum(M, r, r + 1, x, fromBI(0)))])

\* returns [coeffs |-> <<a_m, ..., a_0>>] or throws
solveFracSystem(A, b) ==
  LET M == [i \in 1..Len(A) |-> Append(A[i], b[i])]
      fe == forwardElim(M, 1)
  IN  IF IsThrow(fe) THEN fe
      ELSE [coeffs |-> backSub(fe.M, Len(A), [i \in 1..Len(A) |-> fromBI(0)])]

\* the closure solveForIndices of solveBySubstitution
solveForIndices(pts, kk, idxs) ==
  IF \E j \in 1..Len(idxs) : idxs[j] >= Len(pts) THEN Throw(ErrType) ELSE
  LET rows == [j \in 1..Len(idxs) |-> vandermondeRow(At(pts, idxs[j]).x, kk - 1)]
      b == [j \in 1..Len(idxs) |-> fromBI(At(pts, idxs[j]).y)]
  IN  solveFracSystem(rows, b)

(***************************************************************************)
(* Subset generation (k-combinations).                                     *)
(***************************************************************************)
\* Array.from({ length: k }, (_, i) => i)
firstIdx(kk) == [j \in 1..kk |-> j - 1]

\* while (i >= 0 && idx[i] === i + n - k) i--;
RECURSIVE scanBack(_, _, _, _)
scanBack(ix, i, nn, kk) ==
  IF i >= 0 /\ At(ix, i) = i + nn - kk THEN scanBack(ix, i - 1, nn, kk) ELSE i

\* x + c on Numbers: exact below the precision limit, x + 1 === x at it
addNumber(x, c) == IF x + c >= MaxSafeIdx THEN MaxSafeIdx ELSE x + c

\* the generator's step from one yield to the next yield or to its return:
\* idx[i]++; for (j = i + 1; j < k; j++) idx[j] = idx[j - 1] + 1
advance(ix, nn, kk) ==
  LET i == scanBack(ix, kk - 1, nn, kk)
  IN  IF i < 0 THEN [done |-> TRUE, idx |-> ix]
      ELSE [done |-> FALSE,
            idx |-> [j \in 1..kk |-> IF j - 1 < i THEN ix[j]
                                     ELSE addNumber(At(ix, i), 1 + (j - 1 - i))]]

\* what a consumer holds after a yield: idx.slice() is a fresh array with the
\* elements of idx at that time; a yield of idx itself would be the live array
yieldNoSlice(ix) == [live |-> TRUE, copy |-> ix]

slice(ix) == [live |-> FALSE, copy |-> ix]

(***************************************************************************)
(* The vote tally: a Map in insertion order, modelled as a sequence of     *)
(* entries; Map.set on a key already present keeps the entry's position.   *)
(***************************************************************************)
\* position of key in the Map (0: absent)
RECURSIVE mapFind(_, _, _)
mapFind(m, key, i) ==
  IF i > Len(m) THEN 0
  ELSE IF m[i].key = key THEN i
  ELSE mapFind(m, key, i + 1)

\* Problem.js: counts.set(key, (counts.get(key) || 0) + 1);
\*             if (!example.has(key)) example.set(key, combo.slice());
tallyLagrange(m, key, combo) ==
  LET i == mapFind(m, key, 1)
  IN  IF i = 0 THEN Append(m, [key |-> key, count |-> 1, idxs |-> combo])
      ELSE [m EXCEPT ![i].count = @ + 1]

\* part_000: entry = votes.get(a0) || { count: 0, example: { coeffs, idxs } };
\*           entry.count++; votes.set(a0, entry);
tallyGauss(m, a0, coeffs, idxs) ==
  LET i == mapFind(m, a0, 1)
  IN  IF i = 0
      THEN Append(m, [key |-> a0, count |-> 1, coeffs |-> coeffs, idxs |-> idxs])
      ELSE [m EXCEPT ![i].count = @ + 1]

\* body of the voting loop of Problem.js (try/catch around one subset)
voteBodyLagrange(m, pts, combo) ==
  LET c == constantViaLagrange(subsetOf(pts, combo))
  IN  IF IsThrow(c) THEN m
      ELSE tallyLagrange(m, BIToString(c.value), combo)

\* a loop body whose catch counts the failed subset as a vote for 0
voteBodyGaussTallyFailure(m, pts, kk, idxs) ==
  LET r == solveForIndices(pts, kk, idxs)
  IN  IF IsThrow(r) THEN tallyGauss(m, BIToString(0), <<>>, idxs)
      ELSE tallyGauss(m, FracToString(r.coeffs[Len(r.coeffs)]), r.coeffs, idxs)

\* body of the voting loop of solveBySubstitution (try/catch around one subset)
voteBodyGauss(m, pts, kk, idxs) ==
  LET r == solveForIndices(pts, kk, idxs)
  IN  IF IsThrow(r) THEN m
      ELSE tallyGauss(m, FracToString(r.coeffs[Len(r.coeffs)]), r.coeffs, idxs)

\* a selection that lets a later value with the same count win
RECURSIVE bestLoopLast(_, _, _)
bestLoopLast(m, i, best) ==
  IF i > Len(m) THEN best
  ELSE bestLoopLast(m, i + 1,
         IF m[i].count >= best.bestCount
         THEN [bestConst |-> m[i].key, bestCount |-> m[i].count]
         ELSE best)

\* Problem.js: if (ct > bestCount) { bestCount = ct; bestConst = kstr; }
RECURSIVE bestLoop(_, _, _)
bestLoop(m, i, best) ==
  IF i > Len(m) THEN best
  ELSE bestLoop(m, i + 1,
         IF m[i].count > best.bestCount
         THEN [bestConst |-> m[i].key, bestCount |-> m[i].count]
         ELSE best)

\* part_000: if (!best || val.count > best.count) { best = val; bestKey = key; }
\* best is the position of the entry in votes (0: null)
RECURSIVE winnerLoop(_, _, _)
winnerLoop(m, i, best) ==
  IF i > Len(m) THEN best
  ELSE winnerLoop(m, i + 1,
         IF best = 0 \/ m[i].count > m[best].count THEN i ELSE best)

(***************************************************************************)
(* Command line helpers.                                                   *)
(***************************************************************************)
\* the dedupe loop of parsePickArg: first occurrences, in order
RECURSIVE dedupe(_, _, _)
dedupe(keys, i, unique) ==
  IF i > Len(keys) THEN unique
  ELSE dedupe(keys, i + 1,
              IF \E j \in 1..Len(unique) : unique[j] = keys[i] THEN unique
              ELSE Append(unique, keys[i]))

\* a part of the list as written, after trim(): the text of an integer
\* (/^-?\d+$/, n is its value), any other text, or nothing
IntPart(v) == [kind |-> "int", n |-> v]
BadPart == [kind |-> "bad", n |-> 0]
EmptyPart == [kind |-> "empty", n |-> 0]

\* raw.split(",").map((s) => s.trim()).filter(Boolean)
filterParts(arg) == SelectSeq(arg, LAMBDA p : p.kind # "empty")

\* parts.map(...): throws at a part that is not the text of an integer
mapKeys(parts) ==
  IF \E j \in 1..Len(parts) : parts[j].kind = "bad" THEN Throw(ErrPickNonInteger)
  ELSE [keys |-> [j \in 1..Len(parts) |-> parts[j].n]]

\* a parse that keeps repeated keys
parsePickNoDedupe(arg) ==
  LET parts == filterParts(arg)
      m == mapKeys(parts)
  IN  IF Len(parts) = 0 THEN [null |-> TRUE, keys |-> <<>>]
      ELSE IF IsThrow(m) THEN m
      ELSE [null |-> FALSE, keys |-> m.keys]

\* parsePickArg: null when --pick is absent or lists nothing, an Error when a
\* part is not an integer, else the distinct keys
parsePickArg(arg) ==
  LET parts == filterParts(arg)
      m == mapKeys(parts)
  IN  IF Len(parts) = 0 THEN [null |-> TRUE, keys |-> <<>>]
      ELSE IF IsThrow(m) THEN m
      ELSE [null |-> FALSE, keys |-> dedupe(m.keys, 1, <<>>)]

\* new Map(points.map((p, i) => [p.x.toString(), i])).get(x.toString()):
\* the last index holding x, -1 for undefined
RECURSIVE mapGetIndex(_, _, _)
mapGetIndex(pts, x, i) ==
  IF i < 0 THEN -1
  ELSE IF At(pts, i).x = x THEN i
  ELSE mapGetIndex(pts, x, i - 1)

\* points.findIndex(p => p.x === targetX)
RECURSIVE findIndex(_, _, _)
findIndex(pts, x, i) ==
  IF i >= Len(pts) THEN -1
  ELSE IF At(pts, i).x = x THEN i
  ELSE findIndex(pts, x, i + 1)

consistentXValues == <<1, 3, 4, 5, 6, 7, 9, 10>>

\* the loop over consistentXValues of the non-search path
RECURSIVE consistentLoop(_, _, _, _)
consistentLoop(pts, kk, t, idxs) ==
  IF t > Len(consistentXValues) THEN idxs
  ELSE LET i == findIndex(pts, consistentXValues[t], 0)
           idxs1 == IF i # -1 THEN Append(idxs, i) ELSE idxs
       IN  IF Len(idxs1) = kk THEN idxs1
           ELSE consistentLoop(pts, kk, t + 1, idxs1)

\* used_indices of the non-search path (with its fallback to the first k)
directIndices(pts, kk) ==
  LET idxs == consistentLoop(pts, kk, 1, <<>>)
  IN  IF Len(idxs) < kk THEN firstIdx(kk) ELSE idxs

(***************************************************************************)
(* Output.                                                                 *)
(***************************************************************************)
NoOut == [kind |-> "none", text |-> <<>>, error |-> ""]
\* console.log(`constant = ${text}`)
Printed(text) == [kind |-> "constant", text |-> text, error |-> ""]
\* console.error("Error:", e.message); process.exit(1)
Failed(msg) == [kind |-> "error", text |-> <<>>, error |-> msg]

\* part_000 main: console.log(`constant = ${a0.n.toString()}`)
printGauss(coeffs) == Printed(BIToString(coeffs[Len(coeffs)].n))

(***************************************************************************)
(* The runs.                                                               *)
(***************************************************************************)
inputVars == <<prog, k, n, points, entries, pickArg, tryAll>>
loopVars == <<idx, visited, votes>>
libVars == <<call, fa, lag, gau>>

Pending == [pending |-> TRUE]
IsPending(r) == "pending" \in DOMAIN r
\* new Frac(an, ad); for a method: this = an/ad, o = bn/bd
NoCall == [op |-> "none", an |-> 0, ad |-> 0, bn |-> 0, bd |-> 0]
NoRet == [none |-> TRUE]

\* const chosenXs = parsePickArg(process.argv)
chosenXs == parsePickArg(pickArg)

\* loadTestCase of Problem.js returned: pts.length >= k
loaded == Len(points) >= k

\* parsePickArg returned null
noPick == ~IsThrow(chosenXs) /\ chosenXs.null

\* parsePickArg returned a list of keys
picked == ~IsThrow(chosenXs) /\ ~chosenXs.null

\* loadTestCase of Problem.js throws: fewer than k shares in the file
LLoadTooFew ==
  /\ pc = "start" /\ prog = "lagrange"
  /\ ~loaded
  /\ out' = Failed(ErrNeedPoints)
  /\ pc' = "done"
  /\ UNCHANGED <<inputVars, loopVars, attempts, ret, libVars>>

\* parsePickArg throws: a part of --pick is not an integer
LPickNonInteger ==
  /\ pc = "start" /\ prog = "lagrange"
  /\ loaded
  /\ IsThrow(chosenXs)
  /\ out' = Failed(chosenXs.error)
  /\ pc' = "done"
  /\ UNCHANGED <<inputVars, loopVars, attempts, ret, libVars>>

\* --pick given with a number of keys other than k
LPickWrongSize ==
  /\ pc = "start" /\ prog = "lagrange"
  /\ loaded
  /\ picked
  /\ Len(chosenXs.keys) # k
  /\ out' = Failed(ErrPickSize)
  /\ pc' = "done"
  /\ UNCHANGED <<inputVars, loopVars, attempts, ret, libVars>>

\* --pick given with k keys, one of them not the x of a point
LPickMissing ==
  /\ pc = "start" /\ prog = "lagrange"
  /\ loaded
  /\ picked
  /\ Len(chosenXs.keys) = k
  /\ \E j \in 1..k : mapGetIndex(points, chosenXs.keys[j], Len(points) - 1) = -1
  /\ out' = Failed(ErrPickMissing)
  /\ pc' = "done"
  /\ UNCHANGED <<inputVars, loopVars, attempts, ret, libVars>>

\* --pick given with k keys that all name points: one interpolation
LPickDirect ==
  /\ pc = "start" /\ prog = "lagrange"
  /\ loaded
  /\ picked
  /\ Len(chosenXs.keys) = k
  /\ \A j \in 1..k : mapGetIndex(points, chosenXs.keys[j], Len(points) - 1) # -1
  /\ LET subset == [j \in 1..k |->
                      At(points, mapGetIndex(points, chosenXs.keys[j], Len(points) - 1))]
         c == constantViaLagrange(subset)
     IN  out' = IF IsThrow(c) THEN Failed(c.error) ELSE Printed(BIToString(c.value))
  /\ attempts' = attempts + 1
  /\ pc' = "done"
  /\ UNCHANGED <<inputVars, loopVars, ret, libVars>>

\* no --pick and n === k || points.length === k: compute once
LDirect ==
  /\ pc = "start" /\ prog = "lagrange"
  /\ loaded
  /\ noPick
  /\ (n = k \/ Len(points) = k)
  /\ LET c == constantViaLagrange(sliceK(points, k))
     IN  out' = IF IsThrow(c) THEN Failed(c.error) ELSE Printed(BIToString(c.value))
  /\ attempts' = attempts + 1
  /\ pc' = "done"
  /\ UNCHANGED <<inputVars, loopVars, ret, libVars>>

\* n > k: the voting loop begins, the generator is created
LVoteStart ==
  /\ pc = "start" /\ prog = "lagrange"
  /\ loaded
  /\ noPick
  /\ ~(n = k \/ Len(points) = k)
  /\ idx' = firstIdx(k)
  /\ visited' = <<>>
  /\ votes' = <<>>
  /\ pc' = "voting"
  /\ UNCHANGED <<inputVars, attempts, ret, out, libVars>>

\* one iteration of for (const combo of kCombinations(idxs, k))
LVoteStep ==
  /\ pc = "voting" /\ prog = "lagrange"
  /\ visited' = Append(visited, idx)
  /\ attempts' = attempts + 1
  /\ votes' = voteBodyLagrange(votes, points, idx)
  /\ LET a == advance(idx, Len(points), k)
     IN  /\ idx' = a.idx
         /\ pc' = IF a.done THEN "select" ELSE "voting"
  /\ UNCHANGED <<inputVars, ret, out, libVars>>

\* after the loop: counts.size === 0 throws, else the maximum is printed
LVoteFinish ==
  /\ pc = "select" /\ prog = "lagrange"
  /\ IF Len(votes) = 0
     THEN /\ out' = Failed(ErrNoConsistent)
          /\ ret' = ret
     ELSE LET best == bestLoop(votes, 1, [bestConst |-> <<>>, bestCount |-> -1])
          IN  /\ ret' = best
              /\ out' = Printed(best.bestConst)
  /\ pc' = "done"
  /\ UNCHANGED <<inputVars, loopVars, attempts, libVars>>

\* solveBySubstitution(points, k, false) and the print of main
GDirect ==
  /\ pc = "start" /\ prog = "gauss"
  /\ ~tryAll
  /\ LET ix == directIndices(points, k)
         r == solveForIndices(points, k, ix)
     IN  IF IsThrow(r)
         THEN /\ out' = Failed(r.error)
              /\ ret' = ret
         ELSE /\ ret' = [coeffs |-> r.coeffs, used_indices |-> ix]
              /\ out' = printGauss(r.coeffs)
  /\ attempts' = attempts + 1
  /\ pc' = "done"
  /\ UNCHANGED <<inputVars, loopVars, libVars>>

\* solveBySubstitution(points, k, true): the generator is created
GVoteStart ==
  /\ pc = "start" /\ prog = "gauss"
  /\ tryAll
  /\ idx' = firstIdx(k)
  /\ visited' = <<>>
  /\ votes' = <<>>
  /\ pc' = "voting"
  /\ UNCHANGED <<inputVars, attempts, ret, out, libVars>>

\* one iteration of for (const idxs of kCombinations(...))
GVoteStep ==
  /\ pc = "voting" /\ prog = "gauss"
  /\ visited' = IF Len(visited) < MaxRecorded THEN Append(visited, idx) ELSE visited
  /\ attempts' = IF attempts < MaxRecorded THEN attempts + 1 ELSE attempts
  /\ votes' = voteBodyGauss(votes, points, k, idx)
  /\ LET a == advance(idx, Len(points), k)
     IN  /\ idx' = a.idx
         /\ pc' = IF a.done THEN "select" ELSE "voting"
  /\ UNCHANGED <<inputVars, ret, out, libVars>>

\* pick the winner, return its example; main prints coeffs[last].n
GVoteFinish ==
  /\ pc = "select" /\ prog = "gauss"
  /\ LET best == winnerLoop(votes, 1, 0)
     IN  IF best = 0
         THEN /\ out' = Failed(ErrNoSolvable)
              /\ ret' = ret
         ELSE /\ ret' = [coeffs |-> votes[best].coeffs,
                         used_indices |-> votes[best].idxs]
              /\ out' = printGauss(votes[best].coeffs)
  /\ pc' = "done"
  /\ UNCHANGED <<inputVars, loopVars, attempts, libVars>>

(***************************************************************************)
(* Inputs.                                                                 *)
(***************************************************************************)
\* the i-th smallest element of a set of integers
ith(S, i) == CHOOSE x \in S : Cardinality({y \in S : y < x}) = i - 1

\* loadTestCase: the points of the file, sorted by x
sortedPoints(S, ys) ==
  [i \in 1..Cardinality(S) |-> [x |-> ith(S, i), y |-> ys[ith(S, i)]]]

\* a loader that leaves pts in the order of the file's keys
noSort(pts) == pts

\* insertion of p behind every element of s whose x is not greater
RECURSIVE insertByX(_, _)
insertByX(s, p) ==
  IF Len(s) = 0 \/ s[Len(s)].x <= p.x THEN Append(s, p)
  ELSE Append(insertByX(SubSeq(s, 1, Len(s) - 1), p), s[Len(s)])

RECURSIVE sortLoop(_, _, _)
sortLoop(pts, i, acc) ==
  IF i > Len(pts) THEN acc ELSE sortLoop(pts, i + 1, insertByX(acc, pts[i]))

\* pts.sort((a, b) => (a.x < b.x ? -1 : a.x > b.x ? 1 : 0)): stable, by x
sort(pts) == sortLoop(pts, 1, <<>>)

\* the state at the entry of a run whose file listed ents and whose loader
\* returned pts
StartState(p, kk, nn, ents, pts, pick, ta) ==
  /\ prog = p /\ k = kk /\ n = nn /\ points = pts /\ entries = ents
  /\ pickArg = pick /\ tryAll = ta
  /\ pc = "start"
  /\ idx = <<>> /\ visited = <<>> /\ votes = <<>>
  /\ attempts = 0 /\ ret = NoRet /\ out = NoOut
  /\ call = NoCall /\ fa = Pending /\ lag = Pending /\ gau = Pending

\* a run on points the file lists in the order they are handed over
StartRun(p, kk, nn, pts, pick, ta) == StartState(p, kk, nn, pts, pts, pick, ta)

\* a run on a file whose keys come in the order of ents: loadTestCase sorts
LoadRun(p, kk, nn, ents, pick, ta) ==
  StartState(p, kk, nn, ents, sort(ents), pick, ta)

\* the programs' switches: Problem.js has none besides --pick
Invocations ==
  {<<"lagrange", FALSE>>, <<"gauss", FALSE>>, <<"gauss", TRUE>>}

\* keys.n of a file is a number of its own; the programs only ever compare it
\* with keys.k (n === k), so it is drawn as k or as the number of shares
KeysN(kk, S) == {kk, Cardinality(S)}

\* every file with distinct x in XKeys, y in 0..MaxY and keys.k in 1..MaxK,
\* whatever the number of shares in it
Init ==
  \E S \in SUBSET XKeys : \E kk \in 1..MaxK : \E nn \in KeysN(kk, S) :
    \E inv \in Invocations : \E ys \in [S -> 0..MaxY] :
      StartRun(inv[1], kk, nn, sortedPoints(S, ys), <<>>, inv[2])

Next ==
  \/ LLoadTooFew
  \/ LDirect
  \/ LVoteStart
  \/ LVoteStep
  \/ LVoteFinish
  \/ GDirect
  \/ GVoteStart
  \/ GVoteStep
  \/ GVoteFinish

Spec == Init /\ [][Next]_vars

(***************************************************************************)
(* The six-point instance: f(x) = 3x^2 + 2x + 5 at x = 1..5 and a          *)
(* corrupted point at x = 6, k = 3, all subsets searched.                  *)
(***************************************************************************)
fSix(x) == 3 * x * x + 2 * x + 5

sixPoints(delta) ==
  [i \in 1..6 |-> [x |-> i, y |-> IF i = 6 THEN fSix(6) + delta ELSE fSix(i)]]

InitSix ==
  \E delta \in ((-MaxDelta)..MaxDelta) \ {0} :
    \E inv \in {<<"lagrange", FALSE>>, <<"gauss", TRUE>>} :
      StartRun(inv[1], 3, 6, sixPoints(delta), <<>>, inv[2])

NextSix ==
  \/ LVoteStart
  \/ LVoteStep
  \/ LVoteFinish
  \/ GVoteStart
  \/ GVoteStep
  \/ GVoteFinish

SpecSix == InitSix /\ [][NextSix]_vars

(***************************************************************************)
(* Runs with --pick (Problem.js).                                          *)
(***************************************************************************)
\* the parts a caller can write between the commas
PickParts == {IntPart(v) : v \in 1..MaxPickKey} \cup {BadPart, EmptyPart}

\* the lists a caller can write, up to MaxPickLen parts
PickLists == UNION {[1..len -> PickParts] : len \in 0..MaxPickLen}

InitPick ==
  \E S \in SUBSET (1..MaxPickX) : \E kk \in 1..MaxK : \E pick \in PickLists :
    \E nn \in KeysN(kk, S) : \E ys \in [S -> 0..MaxPickY] :
      StartRun("lagrange", kk, nn, sortedPoints(S, ys), pick, FALSE)

NextPick ==
  \/ LLoadTooFew
  \/ LPickNonInteger
  \/ LPickWrongSize
  \/ LPickMissing
  \/ LPickDirect
  \/ LDirect
  \/ LVoteStart
  \/ LVoteStep
  \/ LVoteFinish

SpecPick == InitPick /\ [][NextPick]_vars

(***************************************************************************)
(* Voting runs of both programs on files whose keys come in any order:     *)
(* loadTestCase pushes the entries in the order of the keys and sorts them *)
(* by x before the voting loop sees them.                                  *)
(***************************************************************************)
\* the voting loop of solveBySubstitution run to its end on pts: the tally
RECURSIVE voteAllGauss(_, _, _, _)
voteAllGauss(pts, kk, ix, m) ==
  LET m1 == voteBodyGauss(m, pts, kk, ix)
      a == advance(ix, Len(pts), kk)
  IN  IF a.done THEN m1 ELSE voteAllGauss(pts, kk, a.idx, m1)

\* the key of the winner of the procedure on pts (<<>>: it throws)
winnerKeyGauss(pts, kk) ==
  LET m == voteAllGauss(pts, kk, firstIdx(kk), <<>>)
      w == winnerLoop(m, 1, 0)
  IN  IF w = 0 THEN <<>> ELSE m[w].key

\* the voting loop of Problem.js main run to its end on pts: the tally
RECURSIVE voteAllLagrange(_, _, _, _)
voteAllLagrange(pts, kk, ix, m) ==
  LET m1 == voteBodyLagrange(m, pts, ix)
      a == advance(ix, Len(pts), kk)
  IN  IF a.done THEN m1 ELSE voteAllLagrange(pts, kk, a.idx, m1)

\* the constant Problem.js main prints after the loop on pts (<<>>: it throws)
winnerKeyLagrange(pts, kk) ==
  LET m == voteAllLagrange(pts, kk, firstIdx(kk), <<>>)
  IN  IF Len(m) = 0 THEN <<>>
      ELSE bestLoop(m, 1, [bestConst |-> <<>>, bestCount |-> -1]).bestConst

\* sequences of distinct x keys
InjectiveSeqs(S, len) ==
  {s \in [1..len -> S] : \A i, j \in 1..len : s[i] = s[j] => i = j}

\* the voting invocations: Problem.js with n > k, part_000 --find-consistent
VotingInvocations == {<<"lagrange", FALSE>>, <<"gauss", TRUE>>}

InitPerm ==
  \E len \in 2..MaxPermX : \E kk \in 1..MaxK : \E inv \in VotingInvocations :
    /\ kk < len
    /\ \E xs \in InjectiveSeqs(1..MaxPermX, len) : \E ys \in [1..len -> 0..MaxPermY] :
         LoadRun(inv[1], kk, len, [i \in 1..len |-> [x |-> xs[i], y |-> ys[i]]],
                 <<>>, inv[2])

NextPerm ==
  \/ LVoteStart
  \/ LVoteStep
  \/ LVoteFinish
  \/ GVoteStart
  \/ GVoteStep
  \/ GVoteFinish

SpecPerm == InitPerm /\ [][NextPerm]_vars

(***************************************************************************)
(* Library runs: the two interpolation routines on the same k points.      *)
(***************************************************************************)
InitInterp ==
  \E kk \in 1..MaxInterpK :
    \E xs \in InjectiveSeqs(0..MaxInterpX, kk) : \E ys \in [1..kk -> 0..MaxInterpY] :
      /\ StartRun("lib", kk, kk, [i \in 1..kk |-> [x |-> xs[i], y |-> ys[i]]],
                  <<>>, FALSE)

ApplyLagrange ==
  /\ prog = "lib" /\ pc = "start"
  /\ IsPending(lag)
  /\ lag' = constantViaLagrange(points)
  /\ UNCHANGED <<inputVars, pc, loopVars, attempts, ret, out, call, fa, gau>>

ApplyGauss ==
  /\ prog = "lib" /\ pc = "start"
  /\ IsPending(gau)
  /\ gau' = solveForIndices(points, k, firstIdx(k))
  /\ UNCHANGED <<inputVars, pc, loopVars, attempts, ret, out, call, fa, lag>>

NextInterp ==
  \/ ApplyLagrange
  \/ ApplyGauss

SpecInterp == InitInterp /\ [][NextInterp]_vars

(***************************************************************************)
(* Library runs: Frac construction and arithmetic.                         *)
(***************************************************************************)
FracArgs == (-MaxFracNum)..MaxFracNum

\* the Frac at hand can be an operand
Usable(f) ==
  /\ ~IsPending(f) /\ ~IsThrow(f)
  /\ absBI(f.n) <= MaxFracMag /\ absBI(f.d) <= MaxFracMag

InitFrac ==
  StartRun("lib", 0, 0, <<>>, <<>>, FALSE)

FracNew ==
  /\ prog = "lib" /\ pc = "start"
  /\ \E n0 \in FracArgs, d0 \in FracArgs :
       /\ call' = [op |-> "new", an |-> n0, ad |-> d0, bn |-> 0, bd |-> 0]
       /\ fa' = Frac(n0, d0)
  /\ UNCHANGED <<inputVars, pc, loopVars, attempts, ret, out, lag, gau>>

FracAdd ==
  /\ prog = "lib" /\ pc = "start"
  /\ Usable(fa)
  /\ \E n0 \in FracArgs, d0 \in FracArgs :
       LET o == Frac(n0, d0)
       IN  /\ ~IsThrow(o)
           /\ call' = [op |-> "add", an |-> fa.n, ad |-> fa.d,
                      bn |-> o.n, bd |-> o.d]
           /\ fa' = add(fa, o)
  /\ UNCHANGED <<inputVars, pc, loopVars, attempts, ret, out, lag, gau>>

FracSub ==
  /\ prog = "lib" /\ pc = "start"
  /\ Usable(fa)
  /\ \E n0 \in FracArgs, d0 \in FracArgs :
       LET o == Frac(n0, d0)
       IN  /\ ~IsThrow(o)
           /\ call' = [op |-> "sub", an |-> fa.n, ad |-> fa.d,
                      bn |-> o.n, bd |-> o.d]
           /\ fa' = sub(fa, o)
  /\ UNCHANGED <<inputVars, pc, loopVars, attempts, ret, out, lag, gau>>

FracMul ==
  /\ prog = "lib" /\ pc = "start"
  /\ Usable(fa)
  /\ \E n0 \in FracArgs, d0 \in FracArgs :
       LET o == Frac(n0, d0)
       IN  /\ ~IsThrow(o)
           /\ call' = [op |-> "mul", an |-> fa.n, ad |-> fa.d,
                      bn |-> o.n, bd |-> o.d]
           /\ fa' = mul(fa, o)
  /\ UNCHANGED <<inputVars, pc, loopVars, attempts, ret, out, lag, gau>>

FracDiv ==
  /\ prog = "lib" /\ pc = "start"
  /\ Usable(fa)
  /\ \E n0 \in FracArgs, d0 \in FracArgs :
       LET o == Frac(n0, d0)
       IN  /\ ~IsThrow(o)
           /\ call' = [op |-> "div", an |-> fa.n, ad |-> fa.d,
                      bn |-> o.n, bd |-> o.d]
           /\ fa' = div(fa, o)
  /\ UNCHANGED <<inputVars, pc, loopVars, attempts, ret, out, lag, gau>>

NextFrac ==
  \/ FracNew
  \/ FracAdd
  \/ FracSub
  \/ FracMul
  \/ FracDiv

SpecFrac == InitFrac /\ [][NextFrac]_vars

(***************************************************************************)
(* Reference mathematics for the properties: the constant term of the      *)
(* interpolating polynomial by Cramer's rule on integer determinants.      *)
(***************************************************************************)
RECURSIVE IntPow(_, _)
IntPow(b, e) == IF e = 0 THEN 1 ELSE b * IntPow(b, e - 1)

RECURSIVE Det(_), DetSum(_, _)
DetSum(M, c) ==
  IF c > Len(M) THEN 0
  ELSE LET minor == [r \in 1..(Len(M) - 1) |->
                       [cc \in 1..(Len(M) - 1) |->
                          M[r + 1][IF cc < c THEN cc ELSE cc + 1]]]
           sign == IF c % 2 = 1 THEN 1 ELSE -1
       IN  sign * M[1][c] * Det(minor) + DetSum(M, c + 1)
Det(M) == IF Len(M) = 0 THEN 1 ELSE DetSum(M, 1)

\* rows [x^(k-1), ..., x, 1]; withY: the last column replaced by y
RefMatrix(pts, withY) ==
  [r \in 1..Len(pts) |->
     [c \in 1..Len(pts) |->
        IF withY /\ c = Len(pts) THEN pts[r].y
        ELSE IntPow(pts[r].x, Len(pts) - c)]]

\* [kind |-> "singular"], [kind |-> "fraction"], or [kind |-> "integer", value]
RefConst(pts) ==
  LET D == Det(RefMatrix(pts, FALSE))
      Dy == Det(RefMatrix(pts, TRUE))
  IN  IF D = 0 THEN [kind |-> "singular", value |-> 0]
      ELSE IF (absBI(Dy) % absBI(D)) # 0 THEN [kind |-> "fraction", value |-> 0]
      ELSE [kind |-> "integer", value |-> quotBI(Dy, D)]

IntegralSubset(combo) == RefConst(subsetOf(points, combo)).kind = "integer"

RECURSIVE Binomial(_, _)
Binomial(nn, kk) ==
  IF kk = 0 THEN 1
  ELSE IF nn = 0 THEN 0
  ELSE Binomial(nn - 1, kk - 1) + Binomial(nn - 1, kk)

RECURSIVE SumCounts(_, _)
SumCounts(m, i) == IF i > Len(m) THEN 0 ELSE m[i].count + SumCounts(m, i + 1)

\* a key of the tally that is the text of an integer
IsIntegerText(key) == Len(key) = 1

\* the run searches all k-subsets
IsVotingRun ==
  \/ prog = "lagrange" /\ loaded /\ noPick /\ ~(n = k \/ Len(points) = k)
  \/ prog = "gauss" /\ tryAll

\* the run makes a single interpolation attempt
IsDirectRun ==
  \/ prog = "lagrange" /\ loaded /\ (picked \/ (noPick /\ (n = k \/ Len(points) = k)))
  \/ prog = "gauss" /\ ~tryAll

\* voting mode as the design has it: n points, more than the threshold
LoopOver ==
  pc \in {"select", "done"} /\ IsVotingRun /\ Len(points) > k /\ n = Len(points)

(***************************************************************************)
(* C1.  In voting mode a k-subset whose attempt fails (zero denominator,   *)
(* non-integral constant term, singular system) adds no entry and no count *)
(* to the tally and does not abort the run: after the loop the tally holds *)
(* only integer candidate values, its counts add up to the number of       *)
(* subsets with an integral constant term, and all C(n,k) subsets were     *)
(* visited.  Stated for both voting loops.                                 *)
(***************************************************************************)
C1_FailedSubsetsCastNoVote ==
  LoopOver =>
    /\ \A i \in 1..Len(votes) : IsIntegerText(votes[i].key)
    /\ SumCounts(votes, 1) =
         Cardinality({j \in 1..Len(visited) : IntegralSubset(visited[j])})
    /\ Len(visited) = Binomial(Len(points), k)
    /\ \A i, j \in 1..Len(visited) : visited[i] = visited[j] => i = j

(***************************************************************************)
(* C2.  Default invocation (no --pick, no switch), n >= k + 2 points at    *)
(* pairwise-distinct positive x (keys.n is their number), exactly one of   *)
(* them off a polynomial of degree <= k-1 with integer coefficients,       *)
(* wherever that point sits: the program prints the constant term of that  *)
(* polynomial.                                                             *)
(***************************************************************************)
MaxCoef == 3

RECURSIVE EvalPoly(_, _, _)
EvalPoly(c, x, j) ==
  IF j > Len(c) THEN 0 ELSE c[j] * IntPow(x, j - 1) + EvalPoly(c, x, j + 1)

\* c = <<a_0, ..., a_(k-1)>>: all points but the one at position o lie on c
OneOutlier(c, o) ==
  /\ o \in 1..Len(points)
  /\ points[o].y # EvalPoly(c, points[o].x, 1)
  /\ \A i \in (1..Len(points)) \ {o} : points[i].y = EvalPoly(c, points[i].x, 1)

IsDefaultRun == pickArg = <<>> /\ ~tryAll

C2_DefaultRunRecoversSecret ==
  (pc = "done" /\ IsDefaultRun /\ Len(points) >= k + 2 /\ n = Len(points)) =>
    \A c \in [1..k -> (-MaxCoef)..MaxCoef] : \A o \in 1..Len(points) :
      OneOutlier(c, o) => out = Printed(BIToString(c[1]))

(***************************************************************************)
(* C3.  A voting run in which no k-subset has an integral constant term    *)
(* ends in the no-consistent-subset error and prints no secret.            *)
(***************************************************************************)
C3_NoIntegralSubsetFails ==
  (pc = "done" /\ IsVotingRun /\ Len(points) > k /\ n = Len(points)
     /\ \A j \in 1..Len(visited) : ~IntegralSubset(visited[j])) =>
    /\ out.kind = "error"
    /\ out.error \in {ErrNoConsistent, ErrNoSolvable}

(***************************************************************************)
(* C9.  Direct mode (one interpolation attempt): a non-integral constant   *)
(* term, a zero denominator or a singular system ends the run in an error  *)
(* and no constant is printed; a non-integral a_0 is never reported        *)
(* through its numerator.                                                  *)
(***************************************************************************)
\* the points of the single attempt of a direct run
DirectSubset ==
  IF prog = "gauss" THEN subsetOf(points, directIndices(points, k))
  ELSE IF picked
  THEN [j \in 1..Len(chosenXs.keys) |->
          At(points, mapGetIndex(points, chosenXs.keys[j], Len(points) - 1))]
  ELSE sliceK(points, k)

C9_DirectFailureIsFatal ==
  (pc = "done" /\ IsDirectRun /\ attempts = 1 /\ Len(points) >= k
     /\ RefConst(DirectSubset).kind # "integer") =>
    out.kind = "error"

(***************************************************************************)
(* C4.  Six points: f(x) = 3x^2 + 2x + 5 at x = 1..5 and a point at x = 6  *)
(* with any other y than f(6), k = 3: voting over all 20 subsets returns   *)
(* 5, and the count of 5 is strictly greater than every other count.       *)
(***************************************************************************)
CountOf(m, key) ==
  LET i == mapFind(m, key, 1) IN IF i = 0 THEN 0 ELSE m[i].count

C4_SixPointVoteReturnsFive ==
  pc = "done" =>
    /\ out = Printed(BIToString(5))
    /\ Len(visited) = 20
    /\ \A i \in 1..Len(votes) :
         votes[i].key # BIToString(5) => votes[i].count < CountOf(votes, BIToString(5))

\* a finished run in which the corrupted point gathered two votes for a wrong value
C4_Witness ==
  /\ pc = "done" /\ prog = "gauss"
  /\ \E i \in 1..Len(votes) : votes[i].key # BIToString(5) /\ votes[i].count = 2
  /\ CountOf(votes, BIToString(5)) = 10

(***************************************************************************)
(* C5.  After all subsets are evaluated the selected value has the maximum *)
(* count of the tally, and among the values with that count it is the one  *)
(* inserted first, whose first supporting subset is the earliest in        *)
(* lexicographic order.                                                    *)
(***************************************************************************)
LexLess(a, b) ==
  \E p \in 1..Len(a) : a[p] < b[p] /\ \A q \in 1..(p - 1) : a[q] = b[q]

\* the text of the value the selection settled on
Selected ==
  IF prog = "lagrange" THEN ret.bestConst
  ELSE FracToString(ret.coeffs[Len(ret.coeffs)])

C5_WinnerIsFirstMaximum ==
  (pc = "done" /\ IsVotingRun /\ Len(votes) > 0) =>
    LET w == mapFind(votes, Selected, 1)
    IN  /\ w # 0
        /\ \A j \in 1..Len(votes) : votes[j].count <= votes[w].count
        /\ \A j \in 1..Len(votes) :
             (j # w /\ votes[j].count = votes[w].count) =>
               /\ w < j
               /\ LexLess(votes[w].idxs, votes[j].idxs)
        /\ \E v \in 1..Len(visited) : visited[v] = votes[w].idxs

\* a finished vote in which two values share the highest count
C5_Witness ==
  /\ pc = "done" /\ IsVotingRun /\ Len(votes) >= 2
  /\ \E i, j \in 1..Len(votes) :
       /\ i < j
       /\ votes[i].count = votes[j].count
       /\ \A h \in 1..Len(votes) : votes[h].count <= votes[i].count
       /\ Selected = votes[i].key

(***************************************************************************)
(* C6.  For k points with pairwise-distinct x whose interpolating          *)
(* polynomial has an integral constant term, constantViaLagrange and the   *)
(* last coefficient a_0 of solveFracSystem over the vandermondeRow rows    *)
(* are the same integer (and a_0 is integral exactly when the Lagrange     *)
(* routine returns).                                                       *)
(***************************************************************************)
C6_LagrangeAgreesWithGauss ==
  (prog = "lib" /\ ~IsPending(lag) /\ ~IsPending(gau)) =>
    /\ ~IsThrow(gau)
    /\ ~IsThrow(lag) => gau.coeffs[k] = [n |-> lag.value, d |-> 1]
    /\ isInt(gau.coeffs[k]) => (~IsThrow(lag) /\ lag.value = gau.coeffs[k].n)

\* three points in decreasing x whose constant term is an integer no y equals
C6_Witness ==
  /\ prog = "lib" /\ ~IsPending(lag) /\ ~IsPending(gau)
  /\ k = 3 /\ points[1].x > points[2].x /\ points[2].x > points[3].x
  /\ ~IsThrow(lag) /\ ~IsThrow(gau)
  /\ \A i \in 1..k : points[i].y # lag.value
  /\ gau.coeffs[k].n = lag.value

(***************************************************************************)
(* C7.  Voting is order-independent: whatever the order in which the file  *)
(* lists its points, the voting run ends with the winner (or the failure)  *)
(* of the run on the same points listed in x order, also when two or more  *)
(* values share the highest count.                                         *)
(***************************************************************************)
\* the points of the file listed in increasing x: the unpermuted sequence
EntriesInOrder ==
  LET S == {entries[i].x : i \in 1..Len(entries)}
      ys == [x \in S |-> entries[CHOOSE i \in 1..Len(entries) : entries[i].x = x].y]
  IN  sortedPoints(S, ys)

\* the text of the winner of the finished run (<<>>: it threw)
WinnerOfRun == IF out.kind = "error" THEN <<>> ELSE Selected

\* the winner of the voting run of the program at hand on a file listing ents
WinnerOnFile(ents) ==
  IF prog = "lagrange" THEN winnerKeyLagrange(sort(ents), k)
  ELSE winnerKeyGauss(sort(ents), k)

C7_WinnerIsOrderIndependent ==
  (pc = "done" /\ IsVotingRun) => WinnerOfRun = WinnerOnFile(EntriesInOrder)

\* a finished vote on a file not listed in x order, in which two different
\* values share the highest count
C7_Witness ==
  /\ pc = "done" /\ IsVotingRun
  /\ entries # EntriesInOrder
  /\ out.kind = "constant"
  /\ \E i, j \in 1..Len(votes) :
       /\ i < j
       /\ votes[i].count = votes[j].count
       /\ \A h \in 1..Len(votes) : votes[h].count <= votes[i].count

(***************************************************************************)
(* C8.  Every Frac that exists (built from (n, d) with d # 0, or returned  *)
(* by add, sub, mul, div) has a positive denominator coprime to its        *)
(* numerator, zero being 0/1; building with d = 0 or dividing by a Frac    *)
(* with numerator 0 raises the division-by-zero error and yields no Frac.  *)
(***************************************************************************)
Coprime(a, b) == \A g \in 2..b : ~(absBI(a) % g = 0 /\ b % g = 0)

\* the last call had a zero denominator or divisor
CallDividesByZero ==
  \/ call.op = "new" /\ call.ad = 0
  \/ call.op = "div" /\ call.bn = 0

\* the rational number the last call denotes, as cross-multiplied integers
CallValue ==
  CASE call.op = "new" -> [n |-> call.an, d |-> call.ad]
    [] call.op = "add" -> [n |-> call.an * call.bd + call.bn * call.ad,
                           d |-> call.ad * call.bd]
    [] call.op = "sub" -> [n |-> call.an * call.bd - call.bn * call.ad,
                           d |-> call.ad * call.bd]
    [] call.op = "mul" -> [n |-> call.an * call.bn, d |-> call.ad * call.bd]
    [] call.op = "div" -> [n |-> call.an * call.bd, d |-> call.ad * call.bn]

C8_FracNormalForm ==
  (prog = "lib" /\ call.op # "none") =>
    IF CallDividesByZero THEN fa = Throw(ErrDivZero)
    ELSE /\ ~IsThrow(fa)
         /\ fa.d > 0
         /\ Coprime(fa.n, fa.d)
         /\ fa.n = 0 => fa.d = 1
         /\ fa.n * CallValue.d = CallValue.n * fa.d

\* a division by a negative Frac whose result had to be reduced and sign-flipped
C8_Witness ==
  /\ prog = "lib" /\ call.op = "div"
  /\ call.bn < 0
  /\ ~IsThrow(fa)
  /\ fa.d < absBI(call.ad * call.bn)
  /\ fa.n # 0

(***************************************************************************)
(* C10.  A --pick list whose length is not k is rejected with the          *)
(* wrong-subset-size error before any interpolation arithmetic, and a list *)
(* of length k naming an x that no point has is rejected with the          *)
(* unknown-key error; for every list, lists that repeat a key included.    *)
(***************************************************************************)
HasPoint(x) == \E i \in 1..Len(points) : points[i].x = x

\* the list as written, without its empty parts
pickParts == filterParts(pickArg)

\* --pick lists integers only, and the file held at least k shares
PickIsKeyList ==
  /\ loaded
  /\ Len(pickParts) > 0
  /\ \A j \in 1..Len(pickParts) : pickParts[j].kind = "int"

C10_PickListChecked ==
  (pc = "done" /\ prog = "lagrange" /\ PickIsKeyList) =>
    /\ Len(pickParts) # k => (out = Failed(ErrPickSize) /\ attempts = 0)
    /\ (Len(pickParts) = k /\ \E j \in 1..Len(pickParts) : ~HasPoint(pickParts[j].n)) =>
         out = Failed(ErrPickMissing)

PickKeys == {pickParts[j].n : j \in 1..Len(pickParts)}

\* the run ended in one of the rejections made before interpolation
RejectedEarly ==
  out.error \in {ErrNeedPoints, ErrPickNonInteger, ErrPickSize, ErrPickMissing}

\* what the run without --pick prints on the same file
DefaultOut ==
  IF n = k \/ Len(points) = k
  THEN LET c == constantViaLagrange(sliceK(points, k))
       IN  IF IsThrow(c) THEN Failed(c.error) ELSE Printed(BIToString(c.value))
  ELSE LET w == winnerKeyLagrange(points, k)
       IN  IF w = <<>> THEN Failed(ErrNoConsistent) ELSE Printed(w)

\* C10 as amended, for every list: a file with fewer than k shares is
\* rejected first; empty parts are dropped, and a list with no part left is
\* no list (the run is the default one); a list with a part that is not an
\* integer is rejected next; the list is then deduplicated and the two checks
\* are made on its distinct keys
C10_PickListCheckedAfterDedupe ==
  (pc = "done" /\ prog = "lagrange") =>
    /\ ~loaded => (out = Failed(ErrNeedPoints) /\ attempts = 0)
    /\ (loaded /\ Len(pickParts) = 0) =>
         (out = DefaultOut /\ attempts >= 1 /\ ~RejectedEarly)
    /\ (loaded /\ Len(pickParts) > 0 /\ ~PickIsKeyList) =>
         (out = Failed(ErrPickNonInteger) /\ attempts = 0)
    /\ PickIsKeyList =>
         /\ Cardinality(PickKeys) # k => (out = Failed(ErrPickSize) /\ attempts = 0)
         /\ (Cardinality(PickKeys) = k /\ \E x \in PickKeys : ~HasPoint(x)) =>
              (out = Failed(ErrPickMissing) /\ attempts = 0)
         /\ (Cardinality(PickKeys) = k /\ \A x \in PickKeys : HasPoint(x)) =>
              (attempts = 1 /\ ~RejectedEarly)

\* k + 1 entries with one duplicate: taken as a pick of k keys and interpolated
C10_Witness ==
  /\ pc = "done" /\ prog = "lagrange" /\ PickIsKeyList
  /\ Len(pickParts) = k + 1 /\ Cardinality(PickKeys) = k
  /\ attempts = 1 /\ out.kind = "constant"

(***************************************************************************)
(* Inputs in which two points may share an x (the keys "1" and "01" of a   *)
(* file both decode to x = 1): the two interpolation routines on k such    *)
(* points in any order, and the two voting loops on such points sorted by  *)
(* x as loadTestCase leaves them.                                          *)
(***************************************************************************)
\* the subset of the example: x = 1 twice
exampleDup == <<[x |-> 1, y |-> 5], [x |-> 1, y |-> 9], [x |-> 2, y |-> 13]>>

\* pts.sort((a, b) => (a.x < b.x ? -1 : a.x > b.x ? 1 : 0)) has been applied
sortedByX(pts) == \A i \in 1..(Len(pts) - 1) : pts[i].x <= pts[i + 1].x

DupPoints(len) ==
  {[i \in 1..len |-> [x |-> xs[i], y |-> ys[i]]] :
     xs \in [1..len -> 0..MaxDupX], ys \in [1..len -> 0..MaxDupY]}

InitDup ==
  \/ \E kk \in 2..(MaxDupLen - 1) : \E pts \in DupPoints(kk) \cup {exampleDup} :
       /\ Len(pts) = kk
       /\ StartRun("lib", kk, kk, pts, <<>>, FALSE)
  \/ \E len \in 3..MaxDupLen : \E kk \in 2..(len - 1) : \E pts \in DupPoints(len) :
       \E inv \in {<<"lagrange", FALSE>>, <<"gauss", TRUE>>} :
         /\ sortedByX(pts)
         /\ StartRun(inv[1], kk, len, pts, <<>>, inv[2])

NextDup ==
  \/ ApplyLagrange
  \/ ApplyGauss
  \/ LVoteStart
  \/ LVoteStep
  \/ LVoteFinish
  \/ GVoteStart
  \/ GVoteStep
  \/ GVoteFinish

SpecDup == InitDup /\ [][NextDup]_vars

\* two of the points share an x
HasDupX(pts) == \E i, j \in 1..Len(pts) : i # j /\ pts[i].x = pts[j].x

\* the voting loop is about to attempt a subset with a repeated x
DupSubsetNext == pc = "voting" /\ HasDupX(subsetOf(points, idx))

(***************************************************************************)
(* C11 (as stated).  A k-subset in which two points share an x makes the   *)
(* interpolation attempt fail with the division-by-zero error, wherever    *)
(* the two points stand, in either routine; and a voting loop that         *)
(* attempts such a subset leaves the tally as it was.                      *)
(***************************************************************************)
C11_DupXFailsWithDivisionByZero ==
  [][ /\ (HasDupX(points) /\ lag' # lag) => lag' = Throw(ErrDivZero)
      /\ (HasDupX(points) /\ gau' # gau) => gau' = Throw(ErrDivZero)
      /\ DupSubsetNext => votes' = votes ]_vars

(***************************************************************************)
(* C11 (amended).  A k-subset in which two points share an x makes the     *)
(* attempt fail, wherever the two points stand: constantViaLagrange fails  *)
(* with the division-by-zero error, solveFracSystem with the singular-     *)
(* matrix error; and a voting loop that attempts such a subset leaves the  *)
(* tally as it was.                                                        *)
(***************************************************************************)
C11_DupXFailsTheAttempt ==
  [][ /\ (HasDupX(points) /\ lag' # lag) => lag' = Throw(ErrDivZero)
      /\ (HasDupX(points) /\ gau' # gau) => gau' = Throw(ErrSingular)
      /\ (DupSubsetNext /\ prog = "lagrange") =>
           /\ constantViaLagrange(subsetOf(points, idx)) = Throw(ErrDivZero)
           /\ votes' = votes
      /\ (DupSubsetNext /\ prog = "gauss") =>
           /\ solveForIndices(points, k, idx) = Throw(ErrSingular)
           /\ votes' = votes ]_vars

\* a voting loop that has visited a subset with a repeated x and has tallied
\* a vote from another subset
C11_Witness ==
  /\ pc \in {"voting", "select"}
  /\ \E j \in 1..Len(visited) : HasDupX(subsetOf(points, visited[j]))
  /\ Len(votes) > 0
  /\ SumCounts(votes, 1) < Len(visited)

(***************************************************************************)
(* Generator runs: kCombinations(arr, k) driven to its end by a consumer   *)
(* that keeps every array it was handed.                                   *)
(***************************************************************************)
\* the elements of a yielded array as the consumer reads them now
contents(item) == IF item.live THEN idx ELSE item.copy

InitComb ==
  \E nn \in 0..MaxCombN : \E kk \in 0..nn :
    StartRun("comb", kk, nn, [i \in 1..nn |-> [x |-> i - 1, y |-> 0]], <<>>, FALSE)

\* first next(): idx is built and yielded
CombFirst ==
  /\ prog = "comb" /\ pc = "start"
  /\ idx' = firstIdx(k)
  /\ visited' = <<slice(firstIdx(k))>>
  /\ pc' = "yielded"
  /\ UNCHANGED <<inputVars, votes, attempts, ret, out, libVars>>

\* a later next(): the scan, then either the return or the next yield
CombResume ==
  /\ prog = "comb" /\ pc = "yielded"
  /\ LET a == advance(idx, Len(points), k)
     IN  IF a.done
         THEN /\ pc' = "done"
              /\ UNCHANGED <<idx, visited>>
         ELSE /\ idx' = a.idx
              /\ visited' = Append(visited, slice(a.idx))
              /\ pc' = "yielded"
  /\ UNCHANGED <<inputVars, votes, attempts, ret, out, libVars>>

NextComb ==
  \/ CombFirst
  \/ CombResume

SpecComb == InitComb /\ [][NextComb]_vars

\* what the generator has yielded so far, and again after the return
C12_Yielded ==
  LET nn == Len(points)
      seen == [j \in 1..Len(visited) |-> contents(visited[j])]
  IN  /\ \A j \in 1..Len(seen) :
           /\ Len(seen[j]) = k
           /\ \A p \in 1..k : seen[j][p] >= 0 /\ seen[j][p] < nn
           /\ \A p \in 1..(k - 1) : seen[j][p] < seen[j][p + 1]
      /\ \A i, j \in 1..Len(seen) : i # j => seen[i] # seen[j]
      /\ \A j \in 1..(Len(seen) - 1) : LexLess(seen[j], seen[j + 1])
      /\ Len(seen) >= 1 => seen[1] = [p \in 1..k |-> p - 1]
      /\ pc = "done" =>
           /\ Len(seen) = Binomial(nn, k)
           /\ seen[Len(seen)] = [p \in 1..k |-> nn - k + p - 1]
           /\ k = 0 => seen = << <<>> >>

\* a step of the generator leaves every array already yielded as it was
C12_Kept ==
  \A j \in 1..Len(visited) : contents(visited[j])' = contents(visited[j])

(***************************************************************************)
(* C12.  For 0 <= k <= n, kCombinations over an n-element array yields     *)
(* exactly C(n,k) index sequences: each strictly increasing with k entries *)
(* in [0, n), none twice, in strictly increasing lexicographic order, the  *)
(* first [0..k-1] and the last [n-k..n-1] (one empty sequence for k = 0);  *)
(* and a later advance never alters a sequence already yielded.            *)
(***************************************************************************)
C12_AllCombinationsInLexOrder == []C12_Yielded /\ [][C12_Kept]_vars

\* a finished enumeration of the six 2-subsets of 4 elements
C12_Witness ==
  /\ prog = "comb" /\ pc = "done"
  /\ Len(points) = 4 /\ k = 2
  /\ Len(visited) = 6
  /\ contents(visited[6]) = <<2, 3>>

(***************************************************************************)
(* Search runs of solveBySubstitution(points, k, true) on what             *)
(* loadTestCase of solve_substitution.js returns: any number of points,    *)
(* fewer than keys.k included, since that loader does not compare          *)
(* pts.length with k.  The for-of loop is taken in its two steps, the loop *)
(* body and the resumption of the generator; visited and attempts are not  *)
(* recorded in these runs.                                                 *)
(***************************************************************************)
InitTerm ==
  \E S \in SUBSET (1..MaxTermX) : \E kk \in 1..MaxTermK :
    \E ys \in [S -> 0..MaxTermY] :
      StartRun("gauss", kk, Cardinality(S), sortedPoints(S, ys), <<>>, TRUE)

\* the loop body on the combination just yielded (try/catch around it)
GTryCombo ==
  /\ prog = "gauss" /\ pc = "voting"
  /\ votes' = voteBodyGauss(votes, points, k, idx)
  /\ pc' = "resume"
  /\ UNCHANGED <<inputVars, idx, visited, attempts, ret, out, libVars>>

\* the generator resumed: the scan, then its return or the next yield
GNextCombo ==
  /\ prog = "gauss" /\ pc = "resume"
  /\ LET a == advance(idx, Len(points), k)
     IN  /\ idx' = a.idx
         /\ pc' = IF a.done THEN "select" ELSE "voting"
  /\ UNCHANGED <<inputVars, visited, votes, attempts, ret, out, libVars>>

NextTerm ==
  \/ GVoteStart
  \/ GTryCombo
  \/ GNextCombo
  \/ GVoteFinish

\* the run moves on: every step of NextTerm changes pc, and one is possible
\* whenever pc is not "done"
MovesOn ==
  /\ pc # "done"
  /\ pc' \in {"voting", "resume", "select", "done"}
  /\ pc' # pc

\* the program is single-threaded and runs without suspension: a run that has
\* not finished takes its next step (weak fairness of NextTerm)
SpecTerm == InitTerm /\ [][NextTerm]_vars /\ WF_pc(MovesOn)

(***************************************************************************)
(* C13.  A search run always terminates: for every point set handed to the *)
(* voting procedure with a threshold k >= 1 the enumeration reaches its    *)
(* end and the procedure returns a value or an error, also when fewer than *)
(* k points are present.                                                   *)
(***************************************************************************)
C13_SearchRunTerminates == <>(pc = "done")

====
